---- MODULE Spec2Model ----
(***************************************************************************)
(* Smart threads of kai (src/src/thread.rs): spawn_smart starts a worker   *)
(* that runs the closure f inside catch_unwind, writes the final           *)
(* ThreadStatus to an Arc<Mutex<ThreadStatus>> and returns its result;     *)
(* SmartHandle offers status(), join(), thread() and into_inner().         *)
(*                                                                         *)
(* One worker, its handle, and NumObservers threads that share &handle and *)
(* call status() concurrently.  Every step between two accesses to shared  *)
(* state (the mutex, the cell, the thread's result packet) is one action.  *)
(* Panics unwind (the default build); catch_unwind catches them.           *)
(***************************************************************************)
EXTENDS Integers, FiniteSets, Sequences, TLC

\* ---- bounds ----
NumObservers == 2
MaxVal == 2

Observers == 1..NumObservers
Values == 1..MaxVal
Payloads == {"boom"}

\* ---- ThreadStatus (thread.rs:38-45) ----
ThreadStatus == {"Running", "Finished", "Panicked"}
Terminal == {"Finished", "Panicked"}

\* ---- results ----
None == [tag |-> "None"]
Ok(v) == [tag |-> "Ok", val |-> v]
Err(e) == [tag |-> "Err", payload |-> e]

\* The closures f that spawn_smart may be given: return v, panic with a
\* payload, or never terminate.
Closures ==
    {[kind |-> "Return", val |-> v] : v \in Values}
    \cup {[kind |-> "Panic", payload |-> p] : p \in Payloads}
    \cup {[kind |-> "Diverge"]}

Free == 0
Worker == NumObservers + 1

VARIABLES
    f,          \* the closure given to spawn_smart
    wpc,        \* position of the worker thread in the spawned closure
    res,        \* result of catch_unwind(f): None, Ok(v) or Err(e)
    status,     \* value in the Mutex<ThreadStatus> cell
    lock,       \* holder of the mutex: Free, Worker or an observer
    poisoned,   \* poison flag of the mutex
    packet,     \* result of the worker thread as JoinHandle::join sees it
    handle,     \* the SmartHandle: live, joining, joined, dropped, inner
    joined,     \* value returned by SmartHandle::join
    obs,        \* per observer: position in status(), copied value, last return
    thr,        \* value returned by the last thread() call
    writes      \* number of assignments made to the cell

vars == <<f, wpc, res, status, lock, poisoned, packet, handle, joined, obs, thr, writes>>

workerVars == <<f, wpc, res, packet>>
cellVars == <<status, lock, poisoned, writes>>
handleVars == <<handle, joined, thr>>

InitialStatusFinished == "Finished"
\* Arc::new(Mutex::new(ThreadStatus::Running))
InitialStatus == "Running"

IdleObserver == [pc |-> "idle", val |-> "None", last |-> "None"]

\* State when spawn_smart returns the SmartHandle: the cell exists, the
\* worker thread has been created and not yet scheduled.
InitCommon ==
    /\ f \in Closures
    /\ wpc = "spawned"
    /\ res = None
    /\ status = InitialStatus
    /\ lock = Free
    /\ packet = None
    /\ handle = "live"
    /\ joined = None
    /\ obs = [o \in Observers |-> IdleObserver]
    /\ thr = "None"
    /\ writes = 0

Init == InitCommon /\ poisoned = FALSE

\* ---- the worker: the closure passed to spawn (thread.rs:102-116) ----

WorkerStartHoldingLock ==
    /\ wpc = "spawned"
    /\ lock = Free
    /\ lock' = Worker
    /\ wpc' = "running"
    /\ UNCHANGED <<f, res, packet, status, poisoned, writes, handleVars, obs>>

\* the thread is scheduled and enters catch_unwind(f)
WorkerStart ==
    /\ wpc = "spawned"
    /\ wpc' = "running"
    /\ UNCHANGED <<f, res, packet, cellVars, handleVars, obs>>

\* f returns v: catch_unwind yields Ok(res)
WorkReturn ==
    /\ wpc = "running"
    /\ f.kind = "Return"
    /\ res' = Ok(f.val)
    /\ wpc' = "caught"
    /\ UNCHANGED <<f, packet, cellVars, handleVars, obs>>

WorkPanicUncaught ==
    /\ wpc = "running"
    /\ f.kind = "Panic"
    /\ packet' = Err(f.payload)
    /\ wpc' = "done"
    /\ UNCHANGED <<f, res, cellVars, handleVars, obs>>

\* f panics: catch_unwind yields Err(e).  A MutexGuard alive inside the
\* unwound frames would be dropped by the unwinding, which poisons the mutex
\* and releases it; the code holds none there.
WorkPanic ==
    /\ wpc = "running"
    /\ f.kind = "Panic"
    /\ res' = Err(f.payload)
    /\ wpc' = "caught"
    /\ IF lock = Worker
         THEN lock' = Free /\ poisoned' = TRUE
         ELSE UNCHANGED <<lock, poisoned>>
    /\ UNCHANGED <<f, packet, status, writes, handleVars, obs>>

\* status_clone.lock(): blocks while the mutex is held; a poisoned mutex is
\* still acquired, the guard travelling inside the PoisonError
WorkerLock ==
    /\ wpc = "caught"
    /\ lock = Free
    /\ lock' = Worker
    /\ wpc' = "locked"
    /\ UNCHANGED <<f, res, packet, status, poisoned, writes, handleVars, obs>>

WrittenStatusSwapped(r) == IF r.tag = "Err" THEN "Finished" ELSE "Panicked"
\* the status each arm assigns: Panicked in the Err arm, Finished after it
WrittenStatus(r) == IF r.tag = "Err" THEN "Panicked" ELSE "Finished"

WorkerWriteSkipped ==
    /\ wpc = "locked"
    /\ wpc' = "wrote"
    /\ UNCHANGED <<f, res, packet, status, writes, lock, poisoned, handleVars, obs>>

\* if let Ok(mut status) = ... { *status = ...; }: the assignment happens
\* only when lock() returned Ok
WorkerWrite ==
    /\ wpc = "locked"
    /\ IF poisoned
         THEN UNCHANGED <<status, writes>>
         ELSE /\ status' = WrittenStatus(res)
              /\ writes' = writes + 1
    /\ wpc' = "wrote"
    /\ UNCHANGED <<f, res, packet, lock, poisoned, handleVars, obs>>

WorkerUnlockNoReturn ==
    /\ wpc = "wrote"
    /\ lock' = Free
    /\ IF res.tag = "Err"
         THEN wpc' = "caught" /\ res' = Ok(1)
         ELSE wpc' = "unlocked" /\ res' = res
    /\ UNCHANGED <<f, packet, status, poisoned, writes, handleVars, obs>>

\* end of the if-let: the guard is dropped; the Err arm goes on to
\* `return Err(e)`, the other to `Ok(res)`
WorkerUnlock ==
    /\ wpc = "wrote"
    /\ lock' = Free
    /\ wpc' = "unlocked"
    /\ UNCHANGED <<f, res, packet, status, poisoned, writes, handleVars, obs>>

\* the closure returns Err(e) or Ok(res); the thread ends and its result
\* (Ok of the closure's return value) becomes available to join
WorkerExit ==
    /\ wpc = "unlocked"
    /\ packet' = Ok(res)
    /\ wpc' = "done"
    /\ UNCHANGED <<f, res, cellVars, handleVars, obs>>

\* ---- SmartHandle (thread.rs:69-90) ----

\* no status() call is borrowing the handle, so it can be moved
NoBorrow == \A o \in Observers : obs[o].pc = "idle"

StatusValueIgnorePoison(p, cell) == cell
\* .lock().map(|guard| ThreadStatus::clone(&*guard)).unwrap_or(Panicked):
\* p says whether lock() returned Err (poisoned), cell is the guarded value
StatusValue(p, cell) == IF p THEN "Panicked" ELSE cell

\* observer o calls status() through &self
StatusCall(o) ==
    /\ handle = "live"
    /\ obs[o].pc = "idle"
    /\ obs' = [obs EXCEPT ![o].pc = "waiting"]
    /\ UNCHANGED <<workerVars, cellVars, handleVars>>

\* self.status.lock()
StatusLock(o) ==
    /\ obs[o].pc = "waiting"
    /\ lock = Free
    /\ lock' = o
    /\ obs' = [obs EXCEPT ![o].pc = "locked"]
    /\ UNCHANGED <<workerVars, status, poisoned, writes, handleVars>>

\* the value is copied out of the guard (or replaced by Panicked) and the
\* guard is dropped
StatusCopy(o) ==
    /\ obs[o].pc = "locked"
    /\ obs' = [obs EXCEPT ![o].pc = "copied",
                          ![o].val = StatusValue(poisoned, status)]
    /\ lock' = Free
    /\ UNCHANGED <<workerVars, status, poisoned, writes, handleVars>>

\* status() returns the copied value to its caller
StatusReturn(o) ==
    /\ obs[o].pc = "copied"
    /\ obs' = [obs EXCEPT ![o] = [pc |-> "idle", val |-> "None", last |-> obs[o].val]]
    /\ UNCHANGED <<workerVars, cellVars, handleVars>>

\* Result::and_then(|r| r) on the thread's Result<Result<T>>
AndThen(p) == IF p.tag = "Ok" THEN p.val ELSE p

\* join(self): the handle is consumed and the caller waits in JoinHandle::join
JoinCall ==
    /\ handle = "live"
    /\ NoBorrow
    /\ handle' = "joining"
    /\ UNCHANGED <<workerVars, cellVars, joined, thr, obs>>

\* JoinHandle::join returns once the thread has ended
JoinReturn ==
    /\ handle = "joining"
    /\ packet # None
    /\ joined' = AndThen(packet)
    /\ handle' = "joined"
    /\ UNCHANGED <<workerVars, cellVars, thr, obs>>

\* thread(&self): a reference to the worker's Thread
ThreadCall ==
    /\ handle = "live"
    /\ thr' = "worker"
    /\ UNCHANGED <<workerVars, cellVars, handle, joined, obs>>

\* into_inner(self): the JoinHandle is moved out, the handle's Arc dropped
IntoInner ==
    /\ handle = "live"
    /\ NoBorrow
    /\ handle' = "inner"
    /\ UNCHANGED <<workerVars, cellVars, joined, thr, obs>>

HandleDropCancels ==
    /\ handle = "live"
    /\ NoBorrow
    /\ handle' = "dropped"
    /\ wpc' = "done"
    /\ lock' = Free
    /\ UNCHANGED <<f, res, packet, status, poisoned, writes, joined, thr, obs>>

\* the SmartHandle is dropped without join: SmartHandle has no Drop impl,
\* dropping the JoinHandle detaches the thread and the handle's Arc is
\* released; the worker keeps status_clone
HandleDrop ==
    /\ handle = "live"
    /\ NoBorrow
    /\ handle' = "dropped"
    /\ UNCHANGED <<workerVars, cellVars, joined, thr, obs>>

Next ==
    \/ WorkerStart
    \/ WorkReturn
    \/ WorkPanic
    \/ WorkerLock
    \/ WorkerWrite
    \/ WorkerUnlock
    \/ WorkerExit
    \/ \E o \in Observers : StatusCall(o)
    \/ \E o \in Observers : StatusLock(o)
    \/ \E o \in Observers : StatusCopy(o)
    \/ \E o \in Observers : StatusReturn(o)
    \/ JoinCall
    \/ JoinReturn
    \/ ThreadCall
    \/ IntoInner
    \/ HandleDrop

Spec == Init /\ [][Next]_vars

\* Threads are scheduled by the OS: a thread that can take a step eventually
\* takes it; a thread waiting for the mutex gets it if it is free again and
\* again.
Fairness ==
    /\ WF_vars(WorkerStart)
    /\ WF_vars(WorkReturn)
    /\ WF_vars(WorkPanic)
    /\ SF_vars(WorkerLock)
    /\ WF_vars(WorkerWrite)
    /\ WF_vars(WorkerUnlock)
    /\ WF_vars(WorkerExit)
    /\ \A o \in Observers : WF_vars(StatusCopy(o)) /\ WF_vars(StatusReturn(o))
    /\ WF_vars(JoinReturn)

FairSpec == Spec /\ Fairness

\* A status() caller waiting for the mutex gets it if it is free again and
\* again.
StatusFairness == \A o \in Observers : SF_vars(StatusLock(o))

FairStatusSpec == FairSpec /\ StatusFairness

\* status() as a function of the mutex's poison flag: the flag is an input
InitPoison == InitCommon /\ poisoned \in BOOLEAN

SpecPoison == InitPoison /\ [][Next]_vars

TypeOK ==
    /\ f \in Closures
    /\ wpc \in {"spawned", "running", "caught", "locked", "wrote", "unlocked", "done"}
    /\ res.tag \in {"None", "Ok", "Err"}
    /\ status \in ThreadStatus
    /\ lock \in {Free, Worker} \cup Observers
    /\ poisoned \in BOOLEAN
    /\ packet.tag \in {"None", "Ok", "Err"}
    /\ handle \in {"live", "joining", "joined", "dropped", "inner"}
    /\ joined.tag \in {"None", "Ok", "Err"}
    /\ \A o \in Observers :
         /\ obs[o].pc \in {"idle", "waiting", "locked", "copied"}
         /\ obs[o].val \in ThreadStatus \cup {"None"}
         /\ obs[o].last \in ThreadStatus \cup {"None"}
    /\ thr \in {"None", "worker"}
    /\ writes \in 0..2

\* ---- properties ----

\* C1 as stated: once status() has returned Finished or Panicked to some
\* caller, a join() called afterwards does not wait: the thread's result is
\* already available.
C1_JoinAfterTerminalIsReady ==
    (handle = "joining" /\ \E o \in Observers : obs[o].last \in Terminal)
        => packet # None

\* C1 amended: a terminal status means the closure has terminated and the
\* worker has made its write, so only the worker's last steps (unlock, return)
\* remain before join can return, and a join called then does return; and
\* whenever the thread's result is available the cell is terminal.
C1_TerminalImpliesWorkDone ==
    /\ [](status \in Terminal =>
            (res # None /\ wpc \in {"wrote", "unlocked", "done"}))
    /\ [](packet # None => (status \in Terminal /\ wpc = "done"))
    /\ []((handle = "joining" /\ status \in Terminal) => <>(handle = "joined"))

C1_Witness ==
    /\ handle = "joining"
    /\ \E o \in Observers : obs[o].last \in Terminal
    /\ packet = None

\* C2: the cell always holds a ThreadStatus, starts at Running, and every
\* change of its value goes from Running to Finished or Panicked.
C2_StatusTransitions ==
    /\ status = "Running"
    /\ [](status \in ThreadStatus)
    /\ [][status' # status => (status = "Running" /\ status' \in Terminal)]_vars

C2_Witness == status = "Panicked" /\ wpc = "done"

\* C3: when f returns v, join returns Ok(v), and the cell holds Finished
\* when join has returned.
C3_JoinReturnsValue ==
    (handle = "joined" /\ f.kind = "Return")
        => (joined = Ok(f.val) /\ status = "Finished")

C3_Witness == handle = "joined" /\ f.kind = "Return" /\ joined = Ok(MaxVal)

\* C4: when f panics the panic is caught in the worker (the thread ends
\* normally, carrying Err), the cell becomes Panicked and stays so, and a
\* join that was called returns Err.
C4_PanicContained ==
    /\ []((f.kind = "Panic" /\ wpc = "done")
            => (status = "Panicked" /\ packet = Ok(Err(f.payload))))
    /\ [][status = "Panicked" => status' = "Panicked"]_vars
    /\ []((f.kind = "Panic" /\ handle = "joined") => joined = Err(f.payload))
    /\ []((f.kind = "Panic" /\ handle = "joining") => <>(handle = "joined"))

C4_Witness ==
    /\ f.kind = "Panic"
    /\ handle = "joined"
    /\ joined.tag = "Err"
    /\ status = "Panicked"

\* C5: once status() has returned Finished (Panicked) to an observer, every
\* later status() call of that observer returns Finished (Panicked).
C5_StatusMonotonic ==
    [][\A o \in Observers :
          obs[o].last \in Terminal => obs'[o].last = obs[o].last]_vars

C5_Witness ==
    \E o \in Observers :
        obs[o].last = "Finished" /\ obs[o].pc = "copied" /\ obs[o].val = "Finished"

\* C6: status() always yields a ThreadStatus, and yields Panicked whenever
\* the mutex is poisoned, whatever the cell holds.
C6_StatusNeverFails ==
    \A o \in Observers :
        /\ obs[o].pc = "copied" => obs[o].val \in ThreadStatus
        /\ obs[o].last \in ThreadStatus \cup {"None"}
        /\ (poisoned /\ obs[o].pc = "copied") => obs[o].val = "Panicked"
        /\ poisoned => obs[o].last \in {"None", "Panicked"}

C6_Witness ==
    /\ poisoned
    /\ status = "Running"
    /\ \E o \in Observers : obs[o].last = "Panicked"

\* C7: until f has returned or panicked, also before the worker thread has
\* been scheduled, every status() call yields Running.
C7_RunningUntilWorkEnds ==
    wpc \in {"spawned", "running"}
        => \A o \in Observers :
              /\ obs[o].val \in {"None", "Running"}
              /\ obs[o].last \in {"None", "Running"}

C7_Witness == wpc = "spawned" /\ \E o \in Observers : obs[o].last = "Running"

\* C8: once f has returned (panicked), the cell eventually holds Finished
\* (Panicked) for ever and every status() call then reads that value.
C8_EventuallyTerminal ==
    /\ [](res.tag = "Ok" =>
            <>[](/\ status = "Finished"
                 /\ \A o \in Observers : obs[o].val \in {"None", "Finished"}))
    /\ [](res.tag = "Err" =>
            <>[](/\ status = "Panicked"
                 /\ \A o \in Observers : obs[o].val \in {"None", "Panicked"}))

C8_Witness ==
    /\ res.tag = "Err"
    /\ status = "Panicked"
    /\ \E o \in Observers : obs[o].last = "Panicked"

\* C9: dropping the handle changes nothing of the worker or the cell, and
\* after the drop a worker whose f terminates still ends having made its
\* one write.
C9_DropDetaches ==
    /\ [][(handle = "live" /\ handle' = "dropped")
            => UNCHANGED <<workerVars, cellVars>>]_vars
    /\ []((handle = "dropped" /\ f.kind # "Diverge") =>
            <>(/\ wpc = "done"
               /\ writes = 1
               /\ status = (IF f.kind = "Return" THEN "Finished" ELSE "Panicked")))

C9_Witness ==
    handle = "dropped" /\ wpc \in {"spawned", "running"} /\ status = "Running"

\* C10: the cell is assigned at most once, exactly once by the time the
\* worker has ended; every assignment is the worker's, made under the lock
\* after catch_unwind has returned, and no handle operation changes the cell.
C10_SingleWriter ==
    /\ [](writes <= 1 /\ (wpc = "done" => writes = 1))
    /\ [][(status' # status \/ writes' # writes) =>
            /\ wpc = "locked" /\ wpc' = "wrote"
            /\ lock = Worker
            /\ res # None
            /\ UNCHANGED <<handleVars, obs>>]_vars

C10_Witness == writes = 1 /\ wpc = "done" /\ handle = "joined"

\* C11: the worker holds the status lock only for its write, never while
\* f runs; whoever holds the lock can release it (no deadlock on the lock);
\* every status() call completes, and one made while f runs or never
\* terminates returns Running.
C11_StatusNeverWaitsForWork ==
    /\ [](lock = Worker <=> wpc \in {"locked", "wrote"})
    /\ [](\A o \in Observers : lock = o <=> obs[o].pc = "locked")
    /\ [](\A o \in Observers :
            (obs[o].pc = "copied" /\ wpc \in {"spawned", "running"})
                => obs[o].val = "Running")
    /\ \A o \in Observers : obs[o].pc = "waiting" ~> obs[o].pc = "idle"
    /\ \A o \in Observers :
         [](f.kind = "Diverge" =>
              (obs[o].pc = "waiting"
                  ~> (obs[o].pc = "idle" /\ obs[o].last = "Running")))

C11_Witness ==
    /\ f.kind = "Diverge"
    /\ wpc = "running"
    /\ \E o \in Observers : obs[o].last = "Running" /\ obs[o].pc = "waiting"
    /\ \E o \in Observers : obs[o].pc = "locked"

\* C12: the mutex is never poisoned; the worker's write is never skipped;
\* status() copies exactly the value stored in the cell, so it yields
\* Panicked only when f panicked.
C12_NeverPoisoned ==
    /\ [](~poisoned)
    /\ [](wpc \in {"wrote", "unlocked", "done"} =>
            /\ writes = 1
            /\ status = (IF res.tag = "Err" THEN "Panicked" ELSE "Finished"))
    /\ [][\A o \in Observers :
            (obs[o].pc = "locked" /\ obs'[o].pc = "copied")
                => obs'[o].val = status]_vars
    /\ [](\A o \in Observers :
            (obs[o].val = "Panicked" \/ obs[o].last = "Panicked")
                => (f.kind = "Panic" /\ res.tag = "Err"))

C12_Witness ==
    /\ f.kind = "Panic"
    /\ wpc = "done"
    /\ ~poisoned
    /\ \E o \in Observers : obs[o].last = "Panicked"

====
